---- MODULE Spec2Model ----
(***************************************************************************)
(* State-machine model of eugene/core.py: the unstructured branching       *)
(* process simulator (simulate_outbreak), the structured simulator         *)
(* (simulate_outbreak_structured) and the grid orchestrator (abc).         *)
(*                                                                         *)
(* Random draws are nondeterministic choices from small integer ranges;    *)
(* the counts the samplers return as floats are integers here.             *)
(* Times are integers: one unit is the 0.01 with which the structured      *)
(* simulator seeds time_vector.  f_home is a rational <<num, den>>.        *)
(***************************************************************************)
EXTENDS Integers, Sequences, FiniteSets, TLC

VARIABLES
    prog,                   \* which entry point is running
    pc,                     \* position in it
    exc,                    \* exception that ended it ("none" while there is none)
    R0, n, max_time, days_elapsed_max, max_cases,           \* parameters
    f_home, max_community_spread, population,               \* structured parameters
    cumulative_incidence, cases, incidence, t_mins,         \* locals of both simulators
    t, epidemic_curve,                                      \* simulate_outbreak
    population_vector, time_vector, steps,                  \* simulate_outbreak_structured
    n_cases_home, n_cases_comm, secondary, secondary_comm_sum,
    loop_iters,             \* number of loop bodies executed so far
    f_home_grid, n_grid_points_per_process, futures        \* abc

params == <<R0, n, max_time, days_elapsed_max, max_cases,
            f_home, max_community_spread, population>>
unstructured_locals == <<t, epidemic_curve>>
structured_locals == <<population_vector, time_vector, steps,
                       n_cases_home, n_cases_comm, secondary, secondary_comm_sum>>
abc_locals == <<f_home_grid, n_grid_points_per_process, futures>>
vars == <<prog, pc, exc, params, cumulative_incidence, cases, incidence, t_mins,
          unstructured_locals, structured_locals, loop_iters, abc_locals>>

(***************************************************************************)
(* Bounds of the model.                                                    *)
(***************************************************************************)
MaxN == 2              \* index cases n range over 1..MaxN
MaxCases == 3          \* max_cases ranges over 1..MaxCases
MaxSecondary == 2      \* a negative-binomial draw is in 0..MaxSecondary
MaxGamma == 1          \* a gamma draw is in 0..MaxGamma
MaxPopulation == 3     \* population ranges over 1..MaxPopulation
MaxHousehold == 2      \* a Poisson household draw is in 0..MaxHousehold
MaxGrid == 3           \* the primary grid has 1..MaxGrid points
MaxChunk == 2          \* n_grid_points_per_process ranges over 1..MaxChunk

MaxTimeValues == {1, 2}
DaysElapsedMaxValues == {1, 2}
R0Values == {0, 1}                      \* R0 = 0, or some R0 > 0
FHomeValues == {<<0, 1>>, <<1, 2>>, <<1, 1>>}
MaxCommunitySpreadValues == {0, 2}

(***************************************************************************)
(* Helpers.                                                                *)
(***************************************************************************)
Min2(a, b) == IF a <= b THEN a ELSE b
Max2(a, b) == IF a >= b THEN a ELSE b

RECURSIVE SumSeq(_)
SumSeq(s) == IF s = <<>> THEN 0 ELSE Head(s) + SumSeq(Tail(s))

\* ndarray.max() / ndarray.min() of a non-empty array
ArrayMax(s) == CHOOSE x \in {s[i] : i \in DOMAIN s} : \A i \in DOMAIN s : s[i] <= x
ArrayMin(s) == CHOOSE x \in {s[i] : i \in DOMAIN s} : \A i \in DOMAIN s : x <= s[i]

\* np.ones(size) * value
Ones(size, value) == [i \in 1..size |-> value]

\* incidence.cumsum()
Cumsum(s) == [i \in 1..Len(s) |-> SumSeq(SubSeq(s, 1, i))]

Last(s) == s[Len(s)]

\* mutant: the draw does not depend on R0
sample_nbinom_any_R0(r0, size) == [1..size -> 0..MaxSecondary]

\* sample_nbinom(n=k, p=k/(k+R0), size): with R0 = 0 the gamma scale (1-p)/p
\* is 0, so every Poisson rate and every draw is 0.
sample_nbinom(r0, size) ==
    IF r0 = 0 THEN {[i \in 1..size |-> 0]}
    ELSE [1..size -> 0..MaxSecondary]

\* min_along_axis / max_along_axis: zip stops at the shorter argument
min_along_axis(a, b) == [i \in 1..Min2(Len(a), Len(b)) |-> Min2(a[i], b[i])]
max_along_axis(a, b) == [i \in 1..Min2(Len(a), Len(b)) |-> Max2(a[i], b[i])]

\* np.random.standard_gamma draws
StandardGamma == 0..MaxGamma

(***************************************************************************)
(* simulate_outbreak                                                       *)
(***************************************************************************)
IdleStructured ==
    /\ population_vector = <<>> /\ time_vector = <<>> /\ steps = 0
    /\ n_cases_home = 0 /\ n_cases_comm = 0 /\ secondary = 0
    /\ secondary_comm_sum = 0
    /\ f_home = <<0, 1>> /\ max_community_spread = 0 /\ population = 0

IdleAbc ==
    /\ f_home_grid = <<>> /\ n_grid_points_per_process = 0 /\ futures = <<>>

\* lines 146-152, for given parameters
StartOutbreak(r0, n0, mt, dem, mc) ==
    /\ prog = "simulate_outbreak" /\ pc = "loop" /\ exc = "none"
    /\ R0 = r0 /\ n = n0 /\ max_time = mt /\ days_elapsed_max = dem
    /\ max_cases = mc
    /\ cumulative_incidence = n0
    /\ t = [i \in 1..n0 |-> 0]
    /\ cases = n0
    /\ incidence = <<n0>>
    /\ t_mins = <<0>>
    /\ epidemic_curve = <<>>
    /\ loop_iters = 0
    /\ IdleStructured /\ IdleAbc

InitOutbreak ==
    \/ \E r0 \in R0Values, n0 \in 1..MaxN, mt \in MaxTimeValues,
          dem \in DaysElapsedMaxValues, mc \in 1..MaxCases :
          StartOutbreak(r0, n0, mt, dem, mc)
    \* the scenario R0 = 0, n = 5
    \/ \E mt \in MaxTimeValues, dem \in DaysElapsedMaxValues, mc \in 1..(5 + MaxCases) :
          StartOutbreak(0, 5, mt, dem, mc)

\* mutant: the cap test lets cumulative_incidence = max_cases run on
OutbreakLoopConditionInclusive(c, tt, dem, cum, mc) ==
    IF c > 0
    THEN IF ArrayMin(tt) < dem THEN cum <= mc ELSE FALSE
    ELSE FALSE

\* the while condition of lines 154-155 (`and` short-circuits: t.min() is
\* not evaluated when cases = 0)
OutbreakLoopCondition(c, tt, dem, cum, mc) ==
    IF c > 0
    THEN IF ArrayMin(tt) < dem THEN cum < mc ELSE FALSE
    ELSE FALSE

\* mutant: `=` written for `+=`
AddCasesAssigned(cum, c) == c

\* line 167
AddCases(cum, c) == cum + c

\* row-major positions of a (rows x cols) array, as np.ravel visits them
Ravel(rows, cols) ==
    [k \in 1..(rows * cols) |-> <<((k - 1) \div cols) + 1, ((k - 1) % cols) + 1>>]

\* line 163: mask for entry <<i, j>>; inds = arange(0, max), so column j
\* (1-based) carries index j - 1
Masked(sec, ij) == sec[ij[1]] <= ij[2] - 1

\* lines 164-165: times_in_bounds for entry <<i, j>>
TimesInBounds(t_new, sec, mt, ij) ==
    IF Masked(sec, ij) THEN FALSE ELSE t_new[ij] < mt

\* one loop body, lines 156-172.  g is drawn for the unmasked entries only:
\* the draws under the mask are never read (line 165 discards them).
Generation ==
    /\ prog = "simulate_outbreak" /\ pc = "loop"
    /\ OutbreakLoopCondition(cases, t, days_elapsed_max, cumulative_incidence, max_cases)
    /\ \E sec \in sample_nbinom(R0, cases) :
         LET m == ArrayMax(sec)
             gamma_size == (1..cases) \X (1..m)
             unmasked == {ij \in gamma_size : ~Masked(sec, ij)}
         IN \E g \in [unmasked -> StandardGamma] :
              LET t_new == [ij \in unmasked |-> t[ij[1]] + g[ij]]
                  flat == Ravel(cases, m)
                  kept == SelectSeq(flat, LAMBDA ij : TimesInBounds(t_new, sec, max_time, ij))
                  new_cases == Len(kept)
                  new_t == [k \in 1..new_cases |-> t_new[kept[k]]]
              IN /\ cases' = new_cases
                 /\ cumulative_incidence' = AddCases(cumulative_incidence, new_cases)
                 /\ t' = new_t
                 /\ IF new_cases > 0
                    THEN /\ t_mins' = Append(t_mins, ArrayMin(new_t))
                         /\ incidence' = Append(incidence, new_cases)
                    ELSE UNCHANGED <<t_mins, incidence>>
    /\ loop_iters' = loop_iters + 1
    /\ UNCHANGED <<prog, pc, exc, params, epidemic_curve, structured_locals, abc_locals>>

\* loop exit and lines 174-177
OutbreakReturn ==
    /\ prog = "simulate_outbreak" /\ pc = "loop"
    /\ ~OutbreakLoopCondition(cases, t, days_elapsed_max, cumulative_incidence, max_cases)
    /\ epidemic_curve' = Cumsum(incidence)
    /\ pc' = "done"
    /\ UNCHANGED <<prog, exc, params, cumulative_incidence, cases, incidence, t_mins, t,
                   structured_locals, loop_iters, abc_locals>>

NextOutbreak == Generation \/ OutbreakReturn

SpecOutbreak == InitOutbreak /\ [][NextOutbreak]_vars

(***************************************************************************)
(* simulate_outbreak_structured                                            *)
(***************************************************************************)
SeedTime == 1          \* the 0.01 of line 283, the unit of time

\* mutant: the size of the vector instead of its non-zero entries
CountAll(v) == Cardinality(DOMAIN v)

\* np.count_nonzero(population_vector)
CountNonzero(v) == Cardinality({i \in DOMAIN v : v[i] # 0})

\* lines 274 and 282: population_vector[:n] = 1 (a slice stops at the end)
SeedPopulation(pop, n0) == [i \in 0..(pop - 1) |-> IF i < n0 THEN 1 ELSE 0]

\* lines 279 and 283
SeedTimes(pop, n0) == [i \in 0..(pop - 1) |-> IF i < n0 THEN SeedTime ELSE 0]

IdleOutbreak == t = <<>> /\ epidemic_curve = <<>> /\ days_elapsed_max = 0

\* lines 269-289, for given parameters
StartStructured(r0, n0, mt, mc, fh, mcs, pop) ==
    /\ prog = "simulate_outbreak_structured" /\ pc = "loop" /\ exc = "none"
    /\ R0 = r0 /\ n = n0 /\ max_time = mt /\ max_cases = mc
    /\ f_home = fh /\ max_community_spread = mcs /\ population = pop
    /\ population_vector = SeedPopulation(pop, n0)
    /\ time_vector = SeedTimes(pop, n0)
    /\ cumulative_incidence = n0
    /\ cases = n0
    /\ incidence = <<n0>>
    /\ t_mins = <<0>>
    /\ steps = 0
    /\ n_cases_home = 0 /\ n_cases_comm = 0 /\ secondary = 0
    /\ secondary_comm_sum = 0
    /\ loop_iters = 0
    /\ IdleOutbreak /\ IdleAbc

InitStructured ==
    \E r0 \in R0Values, n0 \in 1..MaxPopulation, mt \in MaxTimeValues,
       mc \in 1..(MaxPopulation + 1), fh \in FHomeValues,
       mcs \in MaxCommunitySpreadValues, pop \in 1..MaxPopulation :
       StartStructured(r0, n0, mt, mc, fh, mcs, pop)

\* mutant: the cap test lets cumulative_incidence = max_cases run on
StructuredLoopConditionInclusive(c, cum, mc) == c > 0 /\ cum <= mc

\* the while condition of line 291
StructuredLoopCondition(c, cum, mc) == c > 0 /\ cum < mc

\* line 292: int(cases * f_home) + 1
CasesHome(c, fh) == ((c * fh[1]) \div fh[2]) + 1

\* line 293
CasesComm(c, home) == c - home

\* mutant: the cap is not applied
CapCommunityMissing(secondary_comm, c, mcs) == secondary_comm

\* lines 298-300: the cap on community secondaries
CapCommunity(secondary_comm, c, mcs) ==
    min_along_axis(secondary_comm, Ones(c, mcs))

\* lines 305-310: household sizes max(Poisson, 1) cap the home secondaries
CapHome(poisson, secondary_home, c) ==
    min_along_axis(max_along_axis(poisson, Ones(c, 1)), secondary_home)

\* lines 292-312: the split and the secondary draws of one step
StructuredDraw ==
    /\ prog = "simulate_outbreak_structured" /\ pc = "loop"
    /\ StructuredLoopCondition(cases, cumulative_incidence, max_cases)
    /\ LET home == CasesHome(cases, f_home)
           comm == CasesComm(cases, home)
       IN /\ comm >= 0
          /\ n_cases_home' = home
          /\ n_cases_comm' = comm
          /\ \E secondary_comm \in sample_nbinom(R0, comm),
                secondary_home \in sample_nbinom(R0, home),
                poisson \in [1..home -> 0..MaxHousehold] :
                LET secondary_comm_min ==
                        CapCommunity(secondary_comm, cases, max_community_spread)
                    secondary_home_min == CapHome(poisson, secondary_home, cases)
                IN /\ secondary_comm_sum' = SumSeq(secondary_comm_min)
                   /\ secondary' = SumSeq(secondary_comm_min) + SumSeq(secondary_home_min)
    /\ pc' = "infect"
    /\ UNCHANGED <<prog, exc, params, cumulative_incidence, cases, incidence, t_mins,
                   unstructured_locals, population_vector, time_vector, steps,
                   loop_iters, abc_locals>>

\* lines 292-296 when n_cases_comm < 0: sample_nbinom's np.zeros(size) raises
StructuredDrawRaises ==
    /\ prog = "simulate_outbreak_structured" /\ pc = "loop"
    /\ StructuredLoopCondition(cases, cumulative_incidence, max_cases)
    /\ LET home == CasesHome(cases, f_home)
           comm == CasesComm(cases, home)
       IN /\ comm < 0
          /\ n_cases_home' = home
          /\ n_cases_comm' = comm
    /\ pc' = "raised"
    /\ exc' = "ValueError: negative dimensions"
    /\ UNCHANGED <<prog, params, cumulative_incidence, cases, incidence, t_mins,
                   unstructured_locals, population_vector, time_vector, steps,
                   secondary, secondary_comm_sum, loop_iters, abc_locals>>

\* line 324
NewInfections(inds, pv) == {i \in inds : pv[i] = 0}

\* lines 320-321
StillInfectious(inds, pv, tv, mt) == {i \in inds : pv[i] = 1 /\ tv[i] < mt}

\* lines 315-349: choose the contacts, infect, record
StructuredInfect ==
    /\ prog = "simulate_outbreak_structured" /\ pc = "infect"
    /\ secondary <= population
    /\ \E new_infect_inds \in {s \in SUBSET (0..(population - 1)) :
                                  Cardinality(s) = secondary} :
         LET still_infectious ==
                 StillInfectious(new_infect_inds, population_vector, time_vector, max_time)
             new_infections == NewInfections(new_infect_inds, population_vector)
         IN \E g1 \in [new_infections -> StandardGamma],
               g2 \in [still_infectious -> StandardGamma] :
              LET pv == [i \in DOMAIN population_vector |->
                            IF i \in new_infections THEN 1 ELSE population_vector[i]]
                  tv == [i \in DOMAIN time_vector |->
                            IF i \in new_infections THEN time_vector[i] + g1[i]
                            ELSE IF i \in still_infectious
                                 THEN Min2(time_vector[i] + g2[i], max_time)
                                 ELSE time_vector[i]]
              IN /\ population_vector' = pv
                 /\ time_vector' = tv
                 /\ cumulative_incidence' = CountNonzero(pv)
                 /\ IF cases > 0
                    THEN /\ t_mins' = Append(t_mins, steps)
                         /\ incidence' = Append(incidence, CountNonzero(pv))
                         /\ steps' = steps + 1
                         /\ cases' = Cardinality(new_infections)
                    ELSE UNCHANGED <<t_mins, incidence, steps, cases>>
    /\ pc' = "loop"
    /\ loop_iters' = loop_iters + 1
    /\ UNCHANGED <<prog, exc, params, unstructured_locals, n_cases_home, n_cases_comm,
                   secondary, secondary_comm_sum, abc_locals>>

\* lines 315-316 when secondary > population: np.random.choice(replace=False)
\* cannot take a larger sample than the population and raises
StructuredChoiceRaises ==
    /\ prog = "simulate_outbreak_structured" /\ pc = "infect"
    /\ secondary > population
    /\ pc' = "raised"
    /\ exc' = "ValueError: larger sample than population"
    /\ UNCHANGED <<prog, params, cumulative_incidence, cases, incidence, t_mins,
                   unstructured_locals, structured_locals, loop_iters, abc_locals>>

\* loop exit and lines 351-352
StructuredReturn ==
    /\ prog = "simulate_outbreak_structured" /\ pc = "loop"
    /\ ~StructuredLoopCondition(cases, cumulative_incidence, max_cases)
    /\ pc' = "done"
    /\ UNCHANGED <<prog, exc, params, cumulative_incidence, cases, incidence, t_mins,
                   unstructured_locals, structured_locals, loop_iters, abc_locals>>

NextStructured ==
    \/ StructuredDraw
    \/ StructuredDrawRaises
    \/ StructuredInfect
    \/ StructuredChoiceRaises
    \/ StructuredReturn

SpecStructured == InitStructured /\ [][NextStructured]_vars

(***************************************************************************)
(* abc, grouper and the outcome of compute                                 *)
(***************************************************************************)
None == <<>>           \* grouper's default fillvalue

\* every sequence over S of length 1..maxlen
SeqsUpTo(S, maxlen) == UNION {[1..len -> S] : len \in 1..maxlen}

\* grouper(iterable, n): zip_longest over n references to one iterator, so
\* chunk c holds items (c-1)*n+1 .. c*n and the last chunk is padded with
\* fillvalue
grouper(iterable, size) ==
    LET chunks == (Len(iterable) + size - 1) \div size
    IN [c \in 1..chunks |->
          [j \in 1..size |->
             IF (c - 1) * size + j <= Len(iterable)
             THEN iterable[(c - 1) * size + j]
             ELSE None]]

InitAbc ==
    /\ prog = "abc" /\ pc = "submit" /\ exc = "none"
    /\ f_home_grid \in SeqsUpTo(FHomeValues, MaxGrid)
    /\ n_grid_points_per_process \in 1..MaxChunk
    /\ futures = <<>>
    /\ R0 = 0 /\ n = 0 /\ max_time = 0 /\ max_cases = 0
    /\ cumulative_incidence = 0 /\ cases = 0 /\ incidence = <<>> /\ t_mins = <<>>
    /\ loop_iters = 0
    /\ IdleOutbreak /\ IdleStructured

abc_unchanged == <<prog, exc, params, cumulative_incidence, cases, incidence, t_mins,
                   unstructured_locals, structured_locals, loop_iters,
                   f_home_grid, n_grid_points_per_process>>

\* lines 50-52: one future per group
Submit ==
    /\ prog = "abc" /\ pc = "submit"
    /\ futures' = [c \in DOMAIN grouper(f_home_grid, n_grid_points_per_process) |->
                     [group |-> grouper(f_home_grid, n_grid_points_per_process)[c],
                      state |-> "pending", exception |-> "none"]]
    /\ pc' = "wait"
    /\ UNCHANGED abc_unchanged

HasNone(group) == \E j \in DOMAIN group : group[j] = None

\* compute (lines 186-219) runs to np.save: no entry of the group is None
\* and no simulation raised
ComputeSaves(i) ==
    /\ prog = "abc" /\ pc = "wait"
    /\ futures[i].state = "pending"
    /\ ~HasNone(futures[i].group)
    /\ futures' = [futures EXCEPT ![i].state = "finished"]
    /\ UNCHANGED <<pc, abc_unchanged>>

\* compute raises: line 204 on a None entry (TypeError), or a simulation
\* raised (lines 206-214); the exception is kept in the future
ComputeRaises(i) ==
    /\ prog = "abc" /\ pc = "wait"
    /\ futures[i].state = "pending"
    /\ futures' = [futures EXCEPT ![i].state = "finished",
                                  ![i].exception =
                                      IF HasNone(futures[i].group)
                                      THEN "TypeError" ELSE "ValueError"]
    /\ UNCHANGED <<pc, abc_unchanged>>

\* line 53: cf.wait returns once every future is done, then abc returns None
WaitReturns ==
    /\ prog = "abc" /\ pc = "wait"
    /\ \A i \in DOMAIN futures : futures[i].state = "finished"
    /\ pc' = "done"
    /\ UNCHANGED <<futures, abc_unchanged>>

NextAbc ==
    \/ Submit
    \/ \E i \in DOMAIN futures : ComputeSaves(i)
    \/ \E i \in DOMAIN futures : ComputeRaises(i)
    \/ WaitReturns

SpecAbc == InitAbc /\ [][NextAbc]_vars

(***************************************************************************)
(* Specifications                                                          *)
(***************************************************************************)
Init == InitOutbreak \/ InitStructured
Next == NextOutbreak \/ NextStructured
Spec == Init /\ [][Next]_vars

\* a simulator is one sequential function: it keeps running until it returns
FairSpecOutbreak == SpecOutbreak /\ WF_vars(NextOutbreak)

\* the fully seeded scenario: population = 10, n = 10
InitSeeded ==
    \E r0 \in R0Values, mt \in MaxTimeValues, mc \in 11..12,
       fh \in {<<0, 1>>, <<1, 1>>}, mcs \in MaxCommunitySpreadValues :
       StartStructured(r0, 10, mt, mc, fh, mcs, 10)

SpecSeeded == InitSeeded /\ [][NextStructured]_vars

(***************************************************************************)
(* Properties                                                              *)
(***************************************************************************)
Unstructured == prog = "simulate_outbreak"
Structured == prog = "simulate_outbreak_structured"

NonDecreasing(s) == \A i \in 1..(Len(s) - 1) : s[i] <= s[i + 1]

\* the cumulative-incidence sequence a finished run returns
ReturnedIncidence == IF Unstructured THEN epidemic_curve ELSE incidence

\* number of set flags in the infection-status vector
SetFlags == Cardinality({i \in DOMAIN population_vector : population_vector[i] = 1})

\* C1 as stated: the sequence simulate_outbreak returns (1 <= n <= max_cases)
\* is non-decreasing and every value, the last included, is <= max_cases.
C1_AllValuesBounded ==
    (Unstructured /\ pc = "done" /\ 1 <= n /\ n <= max_cases) =>
        /\ NonDecreasing(epidemic_curve)
        /\ \A i \in 1..Len(epidemic_curve) : epidemic_curve[i] <= max_cases

\* C1 amended: the sequence simulate_outbreak returns (1 <= n <= max_cases)
\* is non-decreasing, starts at n, and every value before the last one is
\* < max_cases; only the last value, the generation drawn after the final
\* cap test, can exceed max_cases.
C1_BoundedBeforeLast ==
    (Unstructured /\ pc = "done" /\ 1 <= n /\ n <= max_cases) =>
        /\ NonDecreasing(epidemic_curve)
        /\ epidemic_curve[1] = n
        /\ \A i \in 1..(Len(epidemic_curve) - 1) : epidemic_curve[i] < max_cases

\* a returned trace of three generations whose last value overshoots the cap
C1_Witness ==
    /\ Unstructured /\ pc = "done" /\ n <= max_cases
    /\ Len(epidemic_curve) >= 3
    /\ Last(epidemic_curve) > max_cases

\* C2: in simulate_outbreak_structured with 1 <= n <= population, the trace
\* has one entry per step plus the initial one, and the entry recorded last
\* always equals the number of set flags of population_vector (flags change
\* only in the step that records the next entry).
C2_IncidenceIsFlagCount ==
    (Structured /\ 1 <= n /\ n <= population) =>
        /\ Len(incidence) = steps + 1
        /\ incidence[1] = n
        /\ Last(incidence) = SetFlags

\* two steps recorded, with growth beyond the index cases
C2_Witness ==
    /\ Structured /\ n <= population
    /\ Len(incidence) >= 3
    /\ Last(incidence) > n
    /\ incidence[2] > n

C3_Config ==
    /\ Structured
    /\ max_community_spread = 0 /\ f_home = <<0, 1>>
    /\ 1 <= n /\ n < population /\ n < max_cases

\* C3 as stated: with max_community_spread = 0 and f_home = 0 the run ends
\* after the first step with cumulative incidence n: nobody but the index
\* cases is ever infected.
C3_NoSpread ==
    C3_Config => (cumulative_incidence = n /\ steps <= 1)

\* C3 amended: with max_community_spread = 0 and f_home = 0 the community
\* route contributes no infection attempt and exactly one case per step (the
\* +1 floor) is a home-route case; the run ends after the first step with
\* cumulative incidence n whenever that step makes no infection attempt.
C3_OnlyOneHomeCase ==
    C3_Config =>
        /\ pc = "infect" =>
              /\ n_cases_home = 1
              /\ n_cases_comm = cases - 1
              /\ secondary_comm_sum = 0
        /\ (steps = 1 /\ secondary = 0 /\ pc \in {"loop", "done"}) =>
              /\ cases = 0
              /\ cumulative_incidence = n
              /\ incidence = <<n, n>>
              /\ ~StructuredLoopCondition(cases, cumulative_incidence, max_cases)

\* a finished one-step run with community-route cases that spread nothing
C3_Witness ==
    /\ C3_Config /\ R0 > 0 /\ n >= 2
    /\ pc = "done" /\ steps = 1 /\ secondary = 0
    /\ n_cases_comm >= 1

\* C4 as stated: fully seeded (population = 10, n = 10, max_cases > 10), the
\* run never raises, ends with cumulative incidence 10 and records no step
\* beyond step 0.  (Stated for f_home < 1; f_home = 1 is C9's case.)
C4_FullySeededStopsAtStepZero ==
    (Structured /\ population = 10 /\ n = 10 /\ max_cases > 10
        /\ f_home[1] < f_home[2]) =>
        /\ pc # "raised"
        /\ cumulative_incidence = 10
        /\ pc = "done" => (steps = 0 /\ incidence = <<10>>)

C6_Terminates ==
    /\ [][loop_iters' # loop_iters =>
             (cumulative_incidence' > cumulative_incidence \/ cases' = 0)]_vars
    /\ [](Unstructured =>
             /\ loop_iters <= Max2(0, max_cases - n) + 1
             /\ pc = "done" \/ ENABLED NextOutbreak)

\* the same under fairness: the run eventually returns
C6_EventuallyReturns == <>(pc = "done")

\* a run that used max_cases - n >= 2 generations of one case each
C6_Witness ==
    /\ Unstructured /\ pc = "done"
    /\ loop_iters >= 2
    /\ loop_iters = max_cases - n

RECURSIVE Concat(_)
Concat(ss) == IF ss = <<>> THEN <<>> ELSE Head(ss) \o Concat(Tail(ss))

\* C7 as stated: abc submits one compute per chunk, and the chunks in
\* submission order concatenate to exactly the grid.
C7_ChunksPartitionGrid ==
    (prog = "abc" /\ pc # "submit") =>
        /\ Len(futures) =
              (Len(f_home_grid) + n_grid_points_per_process - 1)
                  \div n_grid_points_per_process
        /\ Concat([c \in DOMAIN futures |-> futures[c].group]) = f_home_grid

\* C8 as stated: abc does not return normally when a worker's compute failed.
C8_WorkerFailureIsFatal ==
    (prog = "abc" /\ pc = "done" /\ exc = "none") =>
        \A i \in DOMAIN futures : futures[i].exception = "none"

\* C9 as stated: for f_home in [0, 1] every split has n_cases_home >= 1,
\* n_cases_comm >= 0 and n_cases_home + n_cases_comm = cases.
C9_SplitIsNonNegative ==
    (Structured /\ pc \in {"infect", "raised"}
        /\ 0 <= f_home[1] /\ f_home[1] <= f_home[2]) =>
        /\ n_cases_home >= 1
        /\ n_cases_comm >= 0
        /\ n_cases_home + n_cases_comm = cases

\* C10: of a finished run of either simulator (n >= 1; n <= population for
\* the structured one) the last returned value is the running cumulative
\* incidence; extinction (no active case) returns a last value < max_cases,
\* and a last value >= max_cases comes only with active cases left.
C10_CapDistinguishable ==
    (pc = "done" /\ n >= 1 /\ (Structured => n <= population)) =>
        /\ Last(ReturnedIncidence) = cumulative_incidence
        /\ cases = 0 => Last(ReturnedIncidence) < max_cases
        /\ Last(ReturnedIncidence) >= max_cases => cases > 0

\* a structured run that grew for two steps and stopped at the cap
C10_Witness ==
    /\ Structured /\ pc = "done" /\ n <= population
    /\ steps >= 2 /\ cases > 0
    /\ Last(incidence) >= max_cases
====
